---- MODULE Spec2Model ----
(***************************************************************************)
(* A model of quortex-mcp (server.py):                                     *)
(*   - QuortexAuth, the httpx auth flow that caches and refreshes the      *)
(*     bearer token (SpecToken);                                           *)
(*   - merge_specs and the fold of create_mcp_server over the loaded       *)
(*     OpenAPI documents, on a heap of Python dicts (SpecMerge);           *)
(*   - the route maps, the outbound authentication mode and the org        *)
(*     transformation of create_mcp_server (SpecRoute, SpecServer);        *)
(*   - the whole start-up, from the spec directory to main()               *)
(*     (SpecStartup).                                                      *)
(***************************************************************************)
EXTENDS Integers, Sequences, FiniteSets, TLC

VARIABLES
    \* ---- QuortexAuth (one instance, shared by every request) ----
    access_token,   \* self.access_token: a Python value (None or a str)
    expiry,         \* self.expiry: seconds since the epoch
    paired,         \* history: access_token and expiry were last assigned together
    clock,          \* time.time()
    pc,             \* per request: where its async_auth_flow coroutine stands
    reqNow,         \* per request: the local variable now, while the flow runs
    hdr,            \* per request: request.headers["Authorization"]
    lastProc        \* history: the credential in the response processed last,
                    \* when that response held a complete one

tokenVars == <<access_token, expiry, paired, clock,
               pc, reqNow, hdr, lastProc>>

VARIABLES
    \* ---- create_mcp_server, lines 103-134: loading and merging ----
    heap,           \* the Python dicts alive, by address (1 .. Len(heap))
    api_dir,        \* input: "missing", or "present"
    yaml_files,     \* input: the content of each file of api_dir.glob("*.yaml")
    merged_spec,    \* address of the dict bound to merged_spec (0: not yet bound)
    loaded,         \* history: address of the dict load_yaml returned for each file
    mpc             \* where create_mcp_server stands

mergeVars == <<heap, api_dir, yaml_files, merged_spec, loaded, mpc>>

VARIABLES
    \* ---- one route put to the route maps ----
    route,          \* input: [method, path]
    route_type      \* the MCP type the route maps give it ("unmatched": not yet put)

routeVars == <<route, route_type>>

VARIABLES
    \* ---- create_mcp_server, lines 136-215: building the server ----
    environ,        \* input: os.environ, the four variables the server reads
    operations,     \* input: the operations of the merged document
    client_kwargs,  \* the keyword arguments of httpx.AsyncClient
    mcp_auth,       \* mcp_auth_provider
    components,     \* what FastMCP.from_openapi made: name -> [type, properties]
    transforms,     \* the tool transformations registered: name -> arguments
    spc,            \* where create_mcp_server stands
    entry           \* main(): "pending", "running" (mcp.run() called) or "exited"

serverVars == <<environ, operations, client_kwargs, mcp_auth, components,
                transforms, spc, entry>>

vars == <<tokenVars, mergeVars, routeVars, serverVars>>

----------------------------------------------------------------------------
\* Bounds of the model.
MaxReq == 2
MaxDocs == 3
MaxPathLen == 3

\* The refresh margin and the default lifetime, in seconds.
Margin == 60
DefaultTTL == 24 * 60 * 60

Requests == 1 .. MaxReq

----------------------------------------------------------------------------
\* Python / JSON values that reach the token manager.
PyNone == [type |-> "none"]
PyStr(s) == [type |-> "str", iso |-> FALSE, val |-> s]
PyNum(n) == [type |-> "num", val |-> n]

\* Python truthiness of a value (None, "" and 0 are falsy).
Truthy(v) ==
    \/ v.type = "str" /\ (v.iso \/ v.val # "")
    \/ v.type = "num" /\ v.val # 0

\* An ISO-8601 timestamp string, kept as the instant it denotes and the way
\* its UTC offset is written ("Z" or "+00:00").
IsoStr(e, z) == [type |-> "str", iso |-> TRUE, epoch |-> e, zone |-> z]
IsIso(v) == v.type = "str" /\ v.iso

\* str.replace("Z", "+00:00") on an expires_at string.
ReplaceZ(v) ==
    IF IsIso(v) THEN IsoStr(v.epoch, "+00:00") ELSE v

\* datetime.fromisoformat(s) succeeds on a timestamp with an explicit offset.
IsoParses(v) == IsIso(v) /\ v.zone = "+00:00"

\* The expression of line 51-52 evaluates without raising: expires_at is a
\* str (it has .replace) and what is left after the replacement parses.
ExpiryParses(v) == v.type = "str" /\ IsoParses(ReplaceZ(v))

\* A timestamp with the refresh margin already taken off.
ExpiryLessMargin(v) == ReplaceZ(v).epoch - 60

\* dt.timestamp() of the parsed, offset-aware datetime.
ExpiryTimestamp(v) == ReplaceZ(v).epoch

\* f"Bearer {self.access_token}"
Bearer(tok) ==
    IF tok.type = "none" THEN "Bearer None" ELSE "Bearer " \o tok.val

\* The condition of line 34 without the safety margin.
NeedsRefreshNoMargin(tok, exp, t) == ~Truthy(tok) \/ t > exp

\* The condition of line 34.
NeedsRefresh(tok, exp, t) == ~Truthy(tok) \/ t > exp - Margin

\* The token the issuer hands to request r when it answers with a real one.
TokenOf(r) == IF r % 2 = 1 THEN "abc" ELSE "xyz"

\* What client.post can come back with.
NetErr == [kind |-> "neterr"]
HttpResp(status, body) == [kind |-> "http", status |-> status, body |-> body]
NotJson == [json |-> FALSE]
JsonObj(f) == [json |-> TRUE, obj |-> f]

\* A JSON object as a function from its keys.
Obj1(k, v) == k :> v
Obj2(k1, v1, k2, v2) == (k1 :> v1) @@ (k2 :> v2)

AccessTokens(r) == {PyStr(TokenOf(r)), PyStr(""), PyNone}

\* The instants at which the clock is read: the first request, 30 and 60
\* seconds later, and 30 seconds less than a day later.
Times == {1000, 1030, 1060, 1000 + DefaultTTL - 30}

\* The values the issuer may send as expires_at: a string that is no
\* timestamp, an instant before every request, and one 90 seconds after the
\* first request.
ExpiresAts ==
    {PyStr("soon"), IsoStr(970, "+00:00"), IsoStr(1090, "Z")}

\* Further values of expires_at, sent along with a real token.
MoreExpiresAts ==
    {PyStr(""), PyNum(1090), IsoStr(970, "Z"), IsoStr(1090, "+00:00")}

OkBodies(r) ==
    {JsonObj(Obj1("access_token", a)) : a \in AccessTokens(r)}
      \cup {JsonObj(Obj2("access_token", a, "expires_at", e)) :
                a \in AccessTokens(r), e \in ExpiresAts}
      \cup {JsonObj(Obj2("access_token", PyStr(TokenOf(r)), "expires_at", e)) :
                e \in MoreExpiresAts}

Responses(r) ==
    {NetErr, HttpResp(500, NotJson), HttpResp(200, NotJson),
     HttpResp(200, JsonObj(Obj1("expires_at", IsoStr(1090, "Z"))))}
      \cup {HttpResp(200, b) : b \in OkBodies(r)}

\* response.raise_for_status()
RaisesForStatus(resp) == resp.status < 200 \/ resp.status >= 300

\* Lines 38-54, read as a function of the answer alone: which of the two
\* assignments (line 45; line 52 or 54) are reached, with what values, and
\* whether an exception leaves the try block.  now is the request's local.
ReadResponse(resp, now) ==
    IF resp.kind = "neterr" THEN
        [setTok |-> FALSE, setExp |-> FALSE, raised |-> "net"]
    ELSE IF RaisesForStatus(resp) THEN
        [setTok |-> FALSE, setExp |-> FALSE, raised |-> "status"]
    ELSE IF ~resp.body.json THEN
        [setTok |-> FALSE, setExp |-> FALSE, raised |-> "notjson"]
    ELSE IF "access_token" \notin DOMAIN resp.body.obj THEN
        [setTok |-> FALSE, setExp |-> FALSE, raised |-> "nokey"]
    ELSE
        LET data == resp.body.obj
            expires_at_str == IF "expires_at" \in DOMAIN data
                              THEN data["expires_at"] ELSE PyNone
        IN  IF Truthy(expires_at_str) THEN
                IF ExpiryParses(expires_at_str) THEN
                    [setTok |-> TRUE, token |-> data["access_token"],
                     setExp |-> TRUE, expiry |-> ExpiryTimestamp(expires_at_str),
                     raised |-> "no"]
                ELSE
                    [setTok |-> TRUE, token |-> data["access_token"],
                     setExp |-> FALSE, raised |-> "badexp"]
            ELSE
                [setTok |-> TRUE, token |-> data["access_token"],
                 setExp |-> TRUE, expiry |-> now + DefaultTTL, raised |-> "no"]

\* A refresh that stores the answer only while the cache is still stale.
RefreshUnlessFresh(resp, tok, exp, now) ==
    LET a == ReadResponse(resp, now)
        skip == ~NeedsRefresh(tok, exp, now)
    IN  [token |-> IF a.setTok /\ ~skip THEN a.token ELSE tok,
         expiry |-> IF a.setExp /\ ~skip THEN a.expiry ELSE exp,
         setTok |-> a.setTok /\ ~skip, setExp |-> a.setExp /\ ~skip,
         raised |-> a.raised]

\* Lines 38-59: the effect of one answer on the cache (tok, exp): the fields
\* assigned before an exception, if any, keep their new values.
Refresh(resp, tok, exp, now) ==
    LET a == ReadResponse(resp, now)
    IN  [token |-> IF a.setTok THEN a.token ELSE tok,
         expiry |-> IF a.setExp THEN a.expiry ELSE exp,
         setTok |-> a.setTok, setExp |-> a.setExp, raised |-> a.raised]

----------------------------------------------------------------------------
NoHeader == "<none>"

\* What a response held, as recorded in lastProc.
Held(a) ==
    IF a.raised = "no" THEN [raised |-> "no", token |-> a.token, expiry |-> a.expiry]
    ELSE [raised |-> "yes"]

\* The request has been yielded to the transport with its header set.
Dispatched(r) == pc[r] \in {"sent_cached", "sent_fresh"}

\* QuortexAuth.__init__
TokenInit ==
    /\ access_token = PyNone
    /\ expiry = 0
    /\ paired = TRUE
    /\ clock = 1000
    /\ pc = [r \in Requests |-> "idle"]
    /\ reqNow = [r \in Requests |-> 0]
    /\ hdr = [r \in Requests |-> NoHeader]
    /\ lastProc = Held(ReadResponse(NetErr, 0))

\* At most MaxReq requests are in flight; a new one takes the lowest free slot.
Arrives(r) == pc[r] = "idle" /\ \A q \in Requests : q < r => pc[q] # "idle"

\* Time passes between two steps of the event loop.
Tick(t) ==
    /\ t > clock
    /\ clock' = t
    /\ UNCHANGED <<access_token, expiry, paired, pc, reqNow,
                   hdr, lastProc>>
    /\ UNCHANGED <<mergeVars, routeVars, serverVars>>

\* Lines 31-38, cached credential stale: the request samples the clock and
\* suspends in `await client.post(...)`.
StartFetch(r) ==
    /\ Arrives(r)
    /\ NeedsRefresh(access_token, expiry, clock)
    /\ reqNow' = [reqNow EXCEPT ![r] = clock]
    /\ pc' = [pc EXCEPT ![r] = "fetching"]
    /\ UNCHANGED <<access_token, expiry, paired, clock,
                   hdr, lastProc>>
    /\ UNCHANGED <<mergeVars, routeVars, serverVars>>

\* Lines 31-34 and 61-62, cached credential fresh: the header is set from
\* the cache and the request is yielded to the transport, with no await.
Reuse(r) ==
    /\ Arrives(r)
    /\ ~NeedsRefresh(access_token, expiry, clock)
    /\ hdr' = [hdr EXCEPT ![r] = Bearer(access_token)]
    /\ pc' = [pc EXCEPT ![r] = "sent_cached"]
    /\ UNCHANGED <<access_token, expiry, paired, clock, reqNow, lastProc>>
    /\ UNCHANGED <<mergeVars, routeVars, serverVars>>

\* A flow that goes back to the fetch when the refresh has raised.
FetchAgainOnError(raised) == IF raised = "no" THEN "closing" ELSE "fetching"

\* Lines 56-59: where the flow stands after the try block: past it, or ended
\* by the re-raised exception.
AfterFetch(raised) == IF raised = "no" THEN "closing" ELSE "failed"

\* Lines 38-59: the post returns (or raises) and the rest of the try block
\* runs without suspending.  A raise propagates to the caller of the request.
FetchReturn(r, resp) ==
    /\ pc[r] = "fetching"
    /\ LET res == Refresh(resp, access_token, expiry, reqNow[r])
       IN  /\ access_token' = res.token
           /\ expiry' = res.expiry
           /\ paired' = IF res.setTok = res.setExp THEN (res.setTok \/ paired) ELSE FALSE
           /\ lastProc' = Held(ReadResponse(resp, reqNow[r]))
           /\ pc' = [pc EXCEPT ![r] = AfterFetch(res.raised)]
           /\ reqNow' = [reqNow EXCEPT ![r] = 0]
    /\ UNCHANGED <<clock, hdr>>
    /\ UNCHANGED <<mergeVars, routeVars, serverVars>>

\* Lines 61-62 after a refresh: once the AsyncClient context has been left,
\* the header is set from the cache as it is then.
Dispatch(r) ==
    /\ pc[r] = "closing"
    /\ hdr' = [hdr EXCEPT ![r] = Bearer(access_token)]
    /\ pc' = [pc EXCEPT ![r] = "sent_fresh"]
    /\ UNCHANGED <<access_token, expiry, paired, clock, reqNow, lastProc>>
    /\ UNCHANGED <<mergeVars, routeVars, serverVars>>

\* The flow of request r is over: the transport has sent the request, or the
\* caller has got the exception; the slot is free for the next request.
Finish(r) ==
    /\ Dispatched(r) \/ pc[r] = "failed"
    /\ pc' = [pc EXCEPT ![r] = "idle"]
    /\ hdr' = [hdr EXCEPT ![r] = NoHeader]
    /\ UNCHANGED <<access_token, expiry, paired, clock, reqNow, lastProc>>
    /\ UNCHANGED <<mergeVars, routeVars, serverVars>>

TokenNext ==
    \/ \E t \in Times : Tick(t)
    \/ \E r \in Requests : StartFetch(r)
    \/ \E r \in Requests : Reuse(r)
    \/ \E r \in Requests : \E resp \in Responses(r) : FetchReturn(r, resp)
    \/ \E r \in Requests : Dispatch(r)
    \/ \E r \in Requests : Finish(r)

----------------------------------------------------------------------------
\* Python dicts on a heap.  A dict is a function from its keys to entries;
\* an entry is a reference to another dict or an immutable value.
Ref(a) == [ref |-> a]
Val(v) == [val |-> v]
EmptyDict == <<>>

\* d[k] = e for the dict at address a.
Put(h, a, k, e) == [h EXCEPT ![a] = (k :> e) @@ @]

\* The categories of components, in the order in which a document lists them.
CatOrder == <<"schemas", "responses">>

\* The shapes a loaded document can have.  Every value carries the index i
\* of its file, so that the values of two documents are never equal.
PathShapes(i) ==
    { EmptyDict,
      "/a" :> ("get" :> <<i, "getA">>),
      ("/a" :> ("post" :> <<i, "postA">>)) @@ ("/b" :> ("get" :> <<i, "getB">>)) }

CompShapes(i) ==
    { EmptyDict,
      "schemas" :> ("X" :> <<i, "schemaX">>),
      ("schemas" :> (("X" :> <<i, "schemaX">>) @@ ("Y" :> <<i, "schemaY">>)))
         @@ ("responses" :> ("X" :> <<i, "responseX">>)) }

TopShapes(i) ==
    { "info" :> (("title" :> <<i, "title">>) @@ ("version" :> <<i, "version">>)),
      ("info" :> (("title" :> <<i, "title">>) @@ ("version" :> <<i, "version">>)))
         @@ ("servers" :> <<i, "servers">>) }

\* A document: openapi, the keys of its top shape, and paths / components
\* when it has any.
DocOf(t, p, c) ==
    ("openapi" :> "3.0.0") @@ t
       @@ (IF p = EmptyDict THEN EmptyDict ELSE "paths" :> p)
       @@ (IF c = EmptyDict THEN EmptyDict ELSE "components" :> c)

Docs(i) == {DocOf(t, p, c) : t \in TopShapes(i), p \in PathShapes(i), c \in CompShapes(i)}

\* The sequences of n documents, the i-th drawn from Docs(i).
RECURSIVE DocSeqs(_)
DocSeqs(n) ==
    IF n = 0 THEN {<<>>}
    ELSE {Append(s, d) : s \in DocSeqs(n - 1), d \in Docs(n)}

\* yaml.safe_load for the categories of components: one dict per category.
RECURSIVE LoadCats(_, _, _, _)
LoadCats(h, comps, cats, refs) ==
    IF cats = <<>> THEN [heap |-> h, refs |-> refs]
    ELSE LET c == Head(cats)
         IN  IF c \notin DOMAIN comps THEN LoadCats(h, comps, Tail(cats), refs)
             ELSE LoadCats(Append(h, [n \in DOMAIN comps[c] |-> Val(comps[c][n])]),
                           comps, Tail(cats), (c :> Ref(Len(h) + 1)) @@ refs)

\* load_yaml: the document as fresh dicts on the heap; addr is the top one.
load_yaml(h, doc) ==
    LET hasInfo == "info" \in DOMAIN doc
        hasPaths == "paths" \in DOMAIN doc
        hasComps == "components" \in DOMAIN doc
        h1 == IF hasInfo
              THEN Append(h, [f \in DOMAIN doc["info"] |-> Val(doc["info"][f])]) ELSE h
        aInfo == Len(h1)
        h2 == IF hasPaths
              THEN Append(h1, [q \in DOMAIN doc["paths"] |-> Val(doc["paths"][q])]) ELSE h1
        aPaths == Len(h2)
        cats == IF hasComps THEN LoadCats(h2, doc["components"], CatOrder, EmptyDict)
                ELSE [heap |-> h2, refs |-> EmptyDict]
        h3 == IF hasComps THEN Append(cats.heap, cats.refs) ELSE cats.heap
        aComps == Len(h3)
        top == [k \in DOMAIN doc |->
                   IF k = "info" THEN Ref(aInfo)
                   ELSE IF k = "paths" THEN Ref(aPaths)
                   ELSE IF k = "components" THEN Ref(aComps)
                   ELSE Val(doc[k])]
    IN  [heap |-> Append(h3, top), addr |-> Len(h3) + 1]

\* A path merge that keeps the method-map already there.
KeepPaths(old, new) == old @@ new

\* A path merge that takes the paths of new alone.
OnlyNewPaths(old, new) == new

\* Lines 81-84: every path of new replaces the accumulator's entry.
OverwritePaths(old, new) == new @@ old

\* A component merge that lets the later document win.
ReplaceComponents(old, new) == new @@ old

\* Lines 95-99: a name already in the accumulator keeps its value.
KeepComponents(old, new) == old @@ new

\* A copy of the accumulator that also takes the keys only new has.
CopyWithNewKeys(base, new) ==
    base @@ [k \in DOMAIN new \ {"paths", "components"} |-> new[k]]

\* Line 75: merged = base_spec.copy(), a shallow copy of the top-level dict.
CopyBase(base, new) == base

\* Lines 78-84.
MergePaths(h, m, new) ==
    IF "paths" \notin DOMAIN h[new] THEN h
    ELSE LET hA == IF "paths" \in DOMAIN h[m] THEN h
                   ELSE Put(Append(h, EmptyDict), m, "paths", Ref(Len(h) + 1))
             pa == hA[m]["paths"].ref
             np == hA[new]["paths"].ref
         IN  [hA EXCEPT ![pa] = OverwritePaths(hA[pa], hA[np])]

\* Lines 91-99, for the categories still to visit.
RECURSIVE MergeCats(_, _, _, _)
MergeCats(h, ca, nca, cats) ==
    IF cats = <<>> THEN h
    ELSE LET c == Head(cats)
         IN  IF c \notin DOMAIN h[nca] THEN MergeCats(h, ca, nca, Tail(cats))
             ELSE LET hA == IF c \in DOMAIN h[ca] THEN h
                            ELSE Put(Append(h, EmptyDict), ca, c, Ref(Len(h) + 1))
                      t == hA[ca][c].ref
                      s == hA[nca][c].ref
                      hB == [hA EXCEPT ![t] = KeepComponents(hA[t], hA[s])]
                  IN  MergeCats(hB, ca, nca, Tail(cats))

\* Lines 87-99.
MergeComponents(h, m, new) ==
    IF "components" \notin DOMAIN h[new] THEN h
    ELSE LET hA == IF "components" \in DOMAIN h[m] THEN h
                   ELSE Put(Append(h, EmptyDict), m, "components", Ref(Len(h) + 1))
         IN  MergeCats(hA, hA[m]["components"].ref, hA[new]["components"].ref, CatOrder)

\* A copy that takes from new only what the merge below would take.
CopyPathsAndComponents(new) ==
    [k \in DOMAIN new \cap {"paths", "components"} |-> new[k]]

\* Line 73: new_spec.copy(), a shallow copy of the top-level dict.
CopyNew(new) == new

\* merge_specs(base_spec, new_spec) on dicts at addresses base and new: the
\* heap afterwards and the address of the dict returned.
merge_specs(h, base, new) ==
    IF DOMAIN h[base] = {} THEN
        [heap |-> Append(h, CopyNew(h[new])), addr |-> Len(h) + 1]
    ELSE
        LET m == Len(h) + 1
            h0 == Append(h, CopyBase(h[base], h[new]))
        IN  [heap |-> MergeComponents(MergePaths(h0, m, new), m, new), addr |-> m]

----------------------------------------------------------------------------
\* create_mcp_server, lines 103-134.

MergeInit ==
    /\ heap = <<>>
    /\ merged_spec = 0
    /\ loaded = <<>>
    /\ mpc = "start"
    /\ \/ api_dir = "missing" /\ yaml_files = <<>>
       \/ api_dir = "present" /\ \E n \in 0 .. MaxDocs : yaml_files \in DocSeqs(n)

\* The merge part is not running (the other specifications).
MergeIdle ==
    /\ heap = <<>>
    /\ merged_spec = 0
    /\ loaded = <<>>
    /\ mpc = "off"
    /\ api_dir = "missing"
    /\ yaml_files = <<>>

\* A test that only looks for the directory.
DirMissing(dir, files) == dir = "missing"

\* Lines 108 and 115: the directory does not exist, or the glob is empty.
NoSpecs(dir, files) == dir = "missing" \/ files = <<>>

\* Lines 105-121: no directory or no file: return None; else merged_spec = {}.
FindSpecs ==
    /\ mpc = "start"
    /\ IF NoSpecs(api_dir, yaml_files)
       THEN /\ mpc' = "returned_none"
            /\ UNCHANGED <<heap, merged_spec>>
       ELSE /\ mpc' = "loop"
            /\ heap' = Append(heap, EmptyDict)
            /\ merged_spec' = Len(heap) + 1
    /\ UNCHANGED <<api_dir, yaml_files, loaded>>
    /\ UNCHANGED <<tokenVars, routeVars, serverVars>>

\* Lines 124-127: one turn of the loop.
LoadAndMerge ==
    /\ mpc = "loop"
    /\ Len(loaded) < Len(yaml_files)
    /\ LET spec == load_yaml(heap, yaml_files[Len(loaded) + 1])
           r == merge_specs(spec.heap, merged_spec, spec.addr)
       IN  /\ heap' = r.heap
           /\ merged_spec' = r.addr
           /\ loaded' = Append(loaded, spec.addr)
    /\ UNCHANGED <<api_dir, yaml_files, mpc>>
    /\ UNCHANGED <<tokenVars, routeVars, serverVars>>

\* Lines 130-134, after the loop.
SetInfo ==
    /\ mpc = "loop"
    /\ Len(loaded) = Len(yaml_files)
    /\ LET hA == IF "info" \in DOMAIN heap[merged_spec] THEN heap
                 ELSE Put(Append(heap, ("title" :> Val("Quortex MCP"))
                                          @@ ("version" :> Val("1.0.0"))),
                          merged_spec, "info", Ref(Len(heap) + 1))
           ia == hA[merged_spec]["info"].ref
       IN  heap' = Put(Put(hA, ia, "title", Val("Quortex Unified API (MCP)")),
                       ia, "description", Val("Unified MCP server for Quortex.io services"))
    /\ mpc' = "merged"
    /\ UNCHANGED <<api_dir, yaml_files, merged_spec, loaded>>
    /\ UNCHANGED <<tokenVars, routeVars, serverVars>>

MergeNext == FindSpecs \/ LoadAndMerge \/ SetInfo

TokenIdle ==
    /\ access_token = PyNone
    /\ expiry = 0
    /\ paired = TRUE
    /\ clock = 0
    /\ pc = [r \in Requests |-> "off"]
    /\ reqNow = [r \in Requests |-> 0]
    /\ hdr = [r \in Requests |-> NoHeader]
    /\ lastProc = Held(ReadResponse(NetErr, 0))

----------------------------------------------------------------------------
\* The route maps (lines 138-145) and the way they are matched.

\* A regular expression as the sequence of its items: a literal character,
\* or ".*" (any run of characters other than a newline).
Lit(c) == [item |-> "lit", c |-> c]
DotStar == [item |-> "dotstar"]

\* r".*\{.*\}.*"
TemplatePattern == <<DotStar, Lit("{"), DotStar, Lit("}"), DotStar>>
NoPattern == <<>>

\* re.match(pattern, path): the pattern matches a prefix of the path, both
\* read from positions i and j on.
RECURSIVE ReMatchFrom(_, _, _, _)
ReMatchFrom(pat, i, path, j) ==
    IF i > Len(pat) THEN TRUE
    ELSE IF pat[i].item = "lit" THEN
        /\ j <= Len(path)
        /\ path[j] = pat[i].c
        /\ ReMatchFrom(pat, i + 1, path, j + 1)
    ELSE
        \/ ReMatchFrom(pat, i + 1, path, j)
        \/ /\ j <= Len(path)
           /\ path[j] # "\n"
           /\ ReMatchFrom(pat, i, path, j + 1)

ReMatch(pat, path) == ReMatchFrom(pat, 1, path, 1)

RouteMap(methods, pattern, mcp_type) ==
    [methods |-> methods, pattern |-> pattern, mcp_type |-> mcp_type]

\* Route maps with the two GET rules in the other order.
route_maps_swapped ==
    << RouteMap({"GET"}, NoPattern, "RESOURCE"),
       RouteMap({"GET"}, TemplatePattern, "RESOURCE_TEMPLATE"),
       RouteMap({"POST", "PUT", "DELETE", "PATCH"}, NoPattern, "TOOL") >>

\* Lines 138-145.
route_maps ==
    << RouteMap({"GET"}, TemplatePattern, "RESOURCE_TEMPLATE"),
       RouteMap({"GET"}, NoPattern, "RESOURCE"),
       RouteMap({"POST", "PUT", "DELETE", "PATCH"}, NoPattern, "TOOL") >>

\* The first route map, from the k-th on, that takes the route; "DEFAULT"
\* when none does.
RECURSIVE MatchFrom(_, _, _, _)
MatchFrom(maps, k, method, path) ==
    IF k > Len(maps) THEN "DEFAULT"
    ELSE IF method \notin maps[k].methods THEN MatchFrom(maps, k + 1, method, path)
    ELSE IF maps[k].pattern # NoPattern /\ ~ReMatch(maps[k].pattern, path)
         THEN MatchFrom(maps, k + 1, method, path)
    ELSE maps[k].mcp_type

match(method, path) == MatchFrom(route_maps, 1, method, path)

\* The characters of a path, and the paths of at most n characters.
PathChars == {"/", "u", "{", "}"}
RECURSIVE PathsUpTo(_)
PathsUpTo(n) ==
    IF n = 0 THEN {<<>>}
    ELSE PathsUpTo(n - 1)
           \cup {Append(q, c) : q \in {x \in PathsUpTo(n - 1) : Len(x) = n - 1}, c \in PathChars}

Methods == {"GET", "POST", "PUT", "DELETE", "PATCH", "HEAD", "OPTIONS"}

RouteInit ==
    /\ route \in [method : Methods, path : PathsUpTo(MaxPathLen)]
    /\ route_type = "unmatched"

RouteIdle ==
    /\ route = [method |-> "GET", path |-> <<>>]
    /\ route_type = "off"

\* The runtime puts the route to the route maps.
MatchRoute ==
    /\ route_type = "unmatched"
    /\ route_type' = match(route.method, route.path)
    /\ UNCHANGED <<route, tokenVars, mergeVars, serverVars>>

RouteNext == MatchRoute

----------------------------------------------------------------------------
\* create_mcp_server, lines 136-215.

\* The operations a merged document may hold: operationId, method, path and
\* the properties of the input schema.
Operation(name, method, path, props) ==
    [name |-> name, method |-> method, path |-> path, properties |-> props]

CandidateOps ==
    { Operation("list_users", "GET", <<"/", "u">>, {}),
      Operation("get_status", "GET", <<"/", "s">>, {"org"}),
      Operation("get_input", "GET", <<"/", "{", "o", "r", "g", "}">>, {"org"}),
      Operation("ingest_inputs_create", "POST", <<"/", "i">>, {"org", "name"}),
      Operation("update_input", "PUT", <<"/", "i", "/", "{", "i", "d", "}">>, {"org", "id"}),
      Operation("delete_user", "DELETE", <<"/", "u", "/", "{", "i", "d", "}">>, {"id"}),
      Operation("patch_user", "PATCH", <<"/", "u">>, {"name"}) }

\* os.environ.get(name): None or a str.
EnvValues(x) == {PyNone, PyStr(""), PyStr(x)}

NoComponents == <<>>

ServerInit ==
    /\ environ \in [QUORTEX_API_KEY : EnvValues("secret"),
                    QUORTEX_API_TOKEN : EnvValues("static-token"),
                    MCP_SERVER_TOKEN : {PyNone, PyStr("server-token")},
                    QUORTEX_ORG : EnvValues("test-org-uuid")]
    /\ operations \in SUBSET CandidateOps
    /\ client_kwargs = NoComponents
    /\ mcp_auth = PyNone
    /\ components = NoComponents
    /\ transforms = NoComponents
    /\ spc = "route_maps"
    /\ entry = "pending"

ServerIdle ==
    /\ environ = [QUORTEX_API_KEY |-> PyNone, QUORTEX_API_TOKEN |-> PyNone,
                  MCP_SERVER_TOKEN |-> PyNone, QUORTEX_ORG |-> PyNone]
    /\ operations = {}
    /\ client_kwargs = NoComponents
    /\ mcp_auth = PyNone
    /\ components = NoComponents
    /\ transforms = NoComponents
    /\ spc = "off"
    /\ entry = "pending"

\* Client arguments that carry the static header whenever a static token is
\* set, also next to the token manager.
ClientKwargsBoth(env) ==
    LET api_key == env.QUORTEX_API_KEY
        auth_token == env.QUORTEX_API_TOKEN
    IN  (IF Truthy(api_key)
         THEN "auth" :> [class |-> "QuortexAuth", api_key_secret |-> api_key]
         ELSE NoComponents)
          @@ (IF Truthy(auth_token)
              THEN "headers" :> ("Authorization" :> Bearer(auth_token))
              ELSE NoComponents)

\* Lines 147-168: api_auth and the arguments of the outbound client.
ClientKwargs(env) ==
    LET api_key == env.QUORTEX_API_KEY
        auth_token == env.QUORTEX_API_TOKEN
        api_auth == IF Truthy(api_key) THEN [class |-> "QuortexAuth", api_key_secret |-> api_key]
                    ELSE IF Truthy(auth_token) THEN [class |-> "httpx.Auth"]
                    ELSE [class |-> "None"]
    IN  IF api_auth.class = "QuortexAuth" THEN "auth" :> api_auth
        ELSE IF Truthy(auth_token)
             THEN "headers" :> ("Authorization" :> Bearer(auth_token))
        ELSE NoComponents

\* Lines 171-185.
McpAuthProvider(env) ==
    IF Truthy(env.MCP_SERVER_TOKEN)
    THEN [class |-> "StaticTokenVerifier", token |-> env.MCP_SERVER_TOKEN]
    ELSE PyNone

ConfigureAuth ==
    /\ spc = "route_maps"
    /\ client_kwargs' = ClientKwargs(environ)
    /\ mcp_auth' = McpAuthProvider(environ)
    /\ spc' = "from_openapi"
    /\ UNCHANGED <<environ, operations, components, transforms, entry>>
    /\ UNCHANGED <<tokenVars, mergeVars, routeVars>>

\* Lines 188-194: FastMCP.from_openapi makes one component per operation,
\* of the type the route maps give it.
FromOpenAPI ==
    /\ spc = "from_openapi"
    /\ components' = [n \in {op.name : op \in operations} |->
                         LET op == CHOOSE o \in operations : o.name = n
                         IN  [type |-> match(op.method, op.path),
                              properties |-> op.properties]]
    /\ spc' = "transform"
    /\ UNCHANGED <<environ, operations, client_kwargs, mcp_auth, transforms, entry>>
    /\ UNCHANGED <<tokenVars, mergeVars, routeVars>>

\* mcp._tool_manager._tools
Tools(comps) == {n \in DOMAIN comps : comps[n].type = "TOOL"}

\* A transformation that is given to every tool.
EveryTool(tool) == TRUE

\* Line 202.
DeclaresOrg(tool) == "org" \in tool.properties

\* Lines 205-212.
OrgTransform(default_org) == "org" :> [hide |-> TRUE, default |-> default_org]

\* A test that takes any value that is set, the empty string too.
OrgIsSet(default_org) == default_org.type # "none"

\* Line 198: if default_org.
HasDefaultOrg(default_org) == Truthy(default_org)

\* Lines 197-215.
ApplyTransformations ==
    /\ spc = "transform"
    /\ LET default_org == environ.QUORTEX_ORG
       IN  transforms' =
              IF HasDefaultOrg(default_org)
              THEN [n \in {t \in Tools(components) : DeclaresOrg(components[t])} |->
                       OrgTransform(default_org)]
              ELSE transforms
    /\ spc' = "returned"
    /\ UNCHANGED <<environ, operations, client_kwargs, mcp_auth, components, entry>>
    /\ UNCHANGED <<tokenVars, mergeVars, routeVars>>

ServerNext == ConfigureAuth \/ FromOpenAPI \/ ApplyTransformations

----------------------------------------------------------------------------
\* The whole start-up: create_mcp_server from line 103 to line 215, called at
\* import (line 218), and then main().

\* The method and the path of an operation as the route maps see them.
UpperMethod == ("get" :> "GET") @@ ("post" :> "POST")
PathString == ("/a" :> <<"/", "a">>) @@ ("/b" :> <<"/", "b">>)

\* The operations FastMCP.from_openapi finds in the dict at address a: one
\* per path and method.
OperationsOf(h, a) ==
    IF "paths" \notin DOMAIN h[a] THEN {}
    ELSE LET paths == h[h[a]["paths"].ref]
         IN  {Operation(paths[q].val[m][2], UpperMethod[m], PathString[q], {}) :
                 <<q, m>> \in {x \in (DOMAIN paths) \X {"get", "post"} :
                                  x[2] \in DOMAIN paths[x[1]].val}}

\* The inputs of a start-up: documents with info and paths only, and an
\* environment with the secret set or not and nothing else set.
StartupInit ==
    /\ \A i \in 1 .. Len(yaml_files) :
          DOMAIN yaml_files[i] \subseteq {"openapi", "info", "paths"}
    /\ environ \in [QUORTEX_API_KEY : {PyNone, PyStr("secret")},
                    QUORTEX_API_TOKEN : {PyNone},
                    MCP_SERVER_TOKEN : {PyNone},
                    QUORTEX_ORG : {PyNone}]
    /\ operations = {}
    /\ client_kwargs = NoComponents
    /\ mcp_auth = PyNone
    /\ components = NoComponents
    /\ transforms = NoComponents
    /\ spc = "off"
    /\ entry = "pending"

\* Lines 136-145: the merged document is ready and the function goes on to
\* build the server from it.
StartBuild ==
    /\ mpc = "merged"
    /\ spc = "off"
    /\ spc' = "route_maps"
    /\ operations' = OperationsOf(heap, merged_spec)
    /\ UNCHANGED <<environ, client_kwargs, mcp_auth, components, transforms, entry>>
    /\ UNCHANGED <<tokenVars, mergeVars, routeVars>>

\* The module-level mcp (line 218) is bound: to None after an early return,
\* to the server after line 215.
McpBound == mpc = "returned_none" \/ spc = "returned"

\* Lines 220-223: main() runs the server if there is one.
main ==
    /\ McpBound
    /\ entry = "pending"
    /\ entry' = IF spc = "returned" THEN "running" ELSE "exited"
    /\ UNCHANGED <<environ, operations, client_kwargs, mcp_auth, components,
                   transforms, spc>>
    /\ UNCHANGED <<tokenVars, mergeVars, routeVars>>

StartupNext == MergeNext \/ StartBuild \/ ServerNext \/ main

----------------------------------------------------------------------------
\* The specifications: each runs one part and holds the others still.

SpecTokenInit == TokenInit /\ MergeIdle /\ RouteIdle /\ ServerIdle
SpecToken == SpecTokenInit /\ [][TokenNext]_vars

\* The token manager with one answer of each kind (a network error, a
\* complete credential, a token with an expires_at that does not parse),
\* where every fetch in flight is answered in the end and the event loop
\* resumes every coroutine that can go on.
LiveResponses(r) ==
    {NetErr,
     HttpResp(200, JsonObj(Obj2("access_token", PyStr(TokenOf(r)),
                                "expires_at", IsoStr(1090, "Z")))),
     HttpResp(200, JsonObj(Obj2("access_token", PyStr(TokenOf(r)),
                                "expires_at", PyStr("soon"))))}

TokenLiveNext ==
    \/ \E t \in Times : Tick(t)
    \/ \E r \in Requests : StartFetch(r)
    \/ \E r \in Requests : Reuse(r)
    \/ \E r \in Requests : \E resp \in LiveResponses(r) : FetchReturn(r, resp)
    \/ \E r \in Requests : Dispatch(r)
    \/ \E r \in Requests : Finish(r)

TokenFairness ==
    \A r \in Requests :
        /\ WF_vars(\E resp \in LiveResponses(r) : FetchReturn(r, resp))
        /\ WF_vars(Dispatch(r))

SpecTokenLive == SpecTokenInit /\ [][TokenLiveNext]_vars /\ TokenFairness

SpecMergeInit == MergeInit /\ TokenIdle /\ RouteIdle /\ ServerIdle
SpecMerge == SpecMergeInit /\ [][MergeNext]_vars

SpecRouteInit == RouteInit /\ TokenIdle /\ MergeIdle /\ ServerIdle
SpecRoute == SpecRouteInit /\ [][RouteNext]_vars

SpecServerInit == ServerInit /\ TokenIdle /\ MergeIdle /\ RouteIdle
SpecServer == SpecServerInit /\ [][ServerNext]_vars

SpecStartupInit == MergeInit /\ StartupInit /\ TokenIdle /\ RouteIdle
SpecStartup == SpecStartupInit /\ [][StartupNext]_vars

----------------------------------------------------------------------------
\* Properties of the merge.

\* What a dict of values holds, read through the heap h.
Plain(h, a) == [k \in DOMAIN h[a] |-> h[a][k].val]

\* The paths of the dict at address a: path -> method-map.
PathsOf(h, a) ==
    IF "paths" \in DOMAIN h[a] THEN Plain(h, h[a]["paths"].ref) ELSE EmptyDict

\* The (category, name) pairs of the dict at address a, and their values.
PairsOf(h, a) ==
    IF "components" \notin DOMAIN h[a] THEN {}
    ELSE LET ca == h[a]["components"].ref
         IN  {<<c, n>> \in {"schemas", "responses"} \X {"X", "Y"} :
                 c \in DOMAIN h[ca] /\ n \in DOMAIN h[h[ca][c].ref]}

PairValue(h, a, c, n) == h[h[h[a]["components"].ref][c].ref][n].val

\* The value of top-level key k of the dict at address a.
TopValue(h, a, k) ==
    IF k = "info" THEN Plain(h, h[a][k].ref) ELSE h[a][k].val

\* The same three, of the content of a file.
DocPaths(d) == IF "paths" \in DOMAIN d THEN d["paths"] ELSE EmptyDict
DocPairs(d) ==
    IF "components" \notin DOMAIN d THEN {}
    ELSE {<<c, n>> \in {"schemas", "responses"} \X {"X", "Y"} :
             c \in DOMAIN d["components"] /\ n \in DOMAIN d["components"][c]}

OtherKeys == {"openapi", "info", "servers"}

Max(S) == CHOOSE x \in S : \A y \in S : y <= x
Min(S) == CHOOSE x \in S : \A y \in S : x <= y

\* The fold has merged the first Len(loaded) documents.
Folding == mpc \in {"loop", "merged"}

\* C2: after any number of documents has been folded, the merged method-map
\* of every path is the method-map of the last of them that defines the
\* path, and a path none of them defines is not in the merged document.
C2_PathsLastWins ==
    Folding =>
        \A q \in {"/a", "/b"} :
            LET defs == {i \in 1 .. Len(loaded) : q \in DOMAIN DocPaths(yaml_files[i])}
            IN  IF defs = {} THEN q \notin DOMAIN PathsOf(heap, merged_spec)
                ELSE /\ q \in DOMAIN PathsOf(heap, merged_spec)
                     /\ PathsOf(heap, merged_spec)[q] = yaml_files[Max(defs)]["paths"][q]

\* C2 witness: documents 1 and 2 define /a with different methods, document 3
\* has no paths, and the merged /a has the post of document 2 and no get.
C2_Witness ==
    /\ mpc = "merged" /\ Len(loaded) = 3
    /\ "/a" \in DOMAIN DocPaths(yaml_files[1])
    /\ "get" \in DOMAIN yaml_files[1]["paths"]["/a"]
    /\ "/b" \in DOMAIN DocPaths(yaml_files[2])
    /\ DocPaths(yaml_files[3]) = EmptyDict
    /\ DOMAIN PathsOf(heap, merged_spec)["/a"] = {"post"}

\* C3: after any number of documents has been folded, every (category, name)
\* pair some document defines has the value of the first document that
\* defines it, and no other pair is in the merged document.
C3_ComponentsFirstWins ==
    Folding =>
        \A cn \in {"schemas", "responses"} \X {"X", "Y"} :
            LET defs == {i \in 1 .. Len(loaded) : cn \in DocPairs(yaml_files[i])}
            IN  IF defs = {} THEN cn \notin PairsOf(heap, merged_spec)
                ELSE /\ cn \in PairsOf(heap, merged_spec)
                     /\ PairValue(heap, merged_spec, cn[1], cn[2])
                           = yaml_files[Min(defs)]["components"][cn[1]][cn[2]]

\* C3 witness: documents 1 and 2 both define schemas/X, only document 2
\* defines schemas/Y; the merged document has X of 1 and Y of 2.
C3_Witness ==
    /\ mpc = "merged" /\ Len(loaded) >= 2
    /\ DocPairs(yaml_files[1]) = {<<"schemas", "X">>}
    /\ <<"schemas", "Y">> \in DocPairs(yaml_files[2])
    /\ PairValue(heap, merged_spec, "schemas", "X") = <<1, "schemaX">>
    /\ PairValue(heap, merged_spec, "schemas", "Y") = <<2, "schemaY">>

\* A turn of the loop that merges into a non-empty accumulator.
MergeStep ==
    /\ mpc = "loop" /\ Len(loaded') = Len(loaded) + 1
    /\ DOMAIN heap[merged_spec] # {}

\* C4 (as claimed): merging next into a non-empty accumulator keeps the
\* accumulator's value of every other top-level key it has, and adds the
\* keys only next has, with next's value.
C4_TopLevelKeysAdded ==
    [][MergeStep =>
          \A k \in OtherKeys :
             LET next == yaml_files[Len(loaded) + 1]
             IN  /\ k \in DOMAIN heap[merged_spec] =>
                       /\ k \in DOMAIN heap'[merged_spec']
                       /\ TopValue(heap', merged_spec', k) = TopValue(heap, merged_spec, k)
                 /\ (k \notin DOMAIN heap[merged_spec] /\ k \in DOMAIN next) =>
                       /\ k \in DOMAIN heap'[merged_spec']
                       /\ TopValue(heap', merged_spec', k) = next[k]]_vars

\* C4 (amended): merging next into a non-empty accumulator keeps the
\* accumulator's value of every other top-level key it has, and a key the
\* accumulator lacks stays absent, also when next has it.
C4_TopLevelKeysFromAcc ==
    [][MergeStep =>
          \A k \in OtherKeys :
             IF k \in DOMAIN heap[merged_spec]
             THEN /\ k \in DOMAIN heap'[merged_spec']
                  /\ TopValue(heap', merged_spec', k) = TopValue(heap, merged_spec, k)
             ELSE k \notin DOMAIN heap'[merged_spec']]_vars

\* C4 witness: document 1 has no servers, document 2 has, both have been
\* merged, and the merged document has the info of 1 and no servers.
C4_Witness ==
    /\ mpc = "loop" /\ Len(loaded) = 2
    /\ "servers" \notin DOMAIN yaml_files[1]
    /\ "servers" \in DOMAIN yaml_files[2]
    /\ "servers" \notin DOMAIN heap[merged_spec]
    /\ TopValue(heap, merged_spec, "info") = yaml_files[1]["info"]

\* The document held by the dict at address a, read through the heap h.
DeepDoc(h, a) ==
    [k \in DOMAIN h[a] |->
        IF k \in {"info", "paths"} THEN Plain(h, h[a][k].ref)
        ELSE IF k = "components"
             THEN [c \in DOMAIN h[h[a][k].ref] |-> Plain(h, h[h[a][k].ref][c].ref)]
        ELSE h[a][k].val]

\* C13: after the first turn of the fold (the accumulator was the empty
\* dict) the merged document is a dict of its own that holds exactly what
\* the first file holds: the same top-level keys with the same values, the
\* same paths with the same method-maps, the same components.
C13_EmptyAccumulatorCopies ==
    (mpc = "loop" /\ Len(loaded) = 1) =>
        /\ DeepDoc(heap, merged_spec) = yaml_files[1]
        /\ merged_spec # loaded[1]

\* C13 witness: a single file with servers, two paths and components in two
\* categories has been folded, and the merged document has all of them.
C13_Witness ==
    /\ mpc = "loop" /\ Len(yaml_files) = 1 /\ Len(loaded) = 1
    /\ "servers" \in DOMAIN heap[merged_spec]
    /\ DOMAIN PathsOf(heap, merged_spec) = {"/a", "/b"}
    /\ <<"responses", "X">> \in PairsOf(heap, merged_spec)
    /\ DOMAIN yaml_files[1] = DOMAIN heap[merged_spec]

\* C15, one merge: a turn of the loop leaves the merged document with the
\* path patterns of the accumulator and of the document merged in, and with
\* the (category, name) pairs of both, and with nothing else.
C15_StepUnion ==
    (mpc = "loop" /\ Len(loaded') = Len(loaded) + 1) =>
        LET next == yaml_files[Len(loaded) + 1]
        IN  /\ DOMAIN PathsOf(heap', merged_spec')
                  = DOMAIN PathsOf(heap, merged_spec) \cup DOMAIN DocPaths(next)
            /\ PairsOf(heap', merged_spec')
                  = PairsOf(heap, merged_spec) \cup DocPairs(next)

\* C15, the fold: the merged document has the path patterns and the
\* (category, name) pairs of all the documents folded so far, and no other.
C15_FoldUnion ==
    Folding =>
        /\ DOMAIN PathsOf(heap, merged_spec)
              = UNION {DOMAIN DocPaths(yaml_files[i]) : i \in 1 .. Len(loaded)}
        /\ PairsOf(heap, merged_spec)
              = UNION {DocPairs(yaml_files[i]) : i \in 1 .. Len(loaded)}

\* C15: merging loses no path pattern and no component name, in one merge
\* and over the whole fold.
C15_NothingLost == []C15_FoldUnion /\ [][C15_StepUnion]_vars

\* C15 witness: document 1 has /a and /b, document 2 has only /a and the
\* components, document 3 has neither; the merged document has both paths
\* and the three pairs.
C15_Witness ==
    /\ mpc = "merged" /\ Len(loaded) = 3
    /\ DOMAIN DocPaths(yaml_files[1]) = {"/a", "/b"} /\ DocPairs(yaml_files[1]) = {}
    /\ DOMAIN DocPaths(yaml_files[2]) = {"/a"}
    /\ DocPairs(yaml_files[2])
          = {<<"schemas", "X">>, <<"schemas", "Y">>, <<"responses", "X">>}
    /\ DOMAIN yaml_files[3] \cap {"paths", "components"} = {}
    /\ DOMAIN PathsOf(heap, merged_spec) = {"/a", "/b"}
    /\ PairsOf(heap, merged_spec) = DocPairs(yaml_files[2])

\* C16 (as claimed): at every point of the fold and after the info of the
\* merged document has been set, the dict load_yaml returned for each file
\* still holds exactly what the file holds: its paths, its components by
\* category and its other top-level values.
C16_SourcesUnchanged ==
    \A i \in 1 .. Len(loaded) : DeepDoc(heap, loaded[i]) = yaml_files[i]

----------------------------------------------------------------------------
\* Properties of the route maps and of the org transformation.

\* The path has a "{" with a "}" somewhere after it.
HasBraces(path) ==
    \E i, j \in 1 .. Len(path) : i < j /\ path[i] = "{" /\ path[j] = "}"

\* C9: GET with a {...} segment is a resource template, any other GET a
\* resource, POST, PUT, DELETE and PATCH a tool with or without a {...}
\* segment, and any other method is left to the default.
C9_FirstMatchWins ==
    route_type \notin {"unmatched", "off"} =>
        /\ (route.method = "GET" /\ HasBraces(route.path))
              => route_type = "RESOURCE_TEMPLATE"
        /\ (route.method = "GET" /\ ~HasBraces(route.path))
              => route_type = "RESOURCE"
        /\ route.method \in {"POST", "PUT", "DELETE", "PATCH"} => route_type = "TOOL"
        /\ route.method \notin {"GET", "POST", "PUT", "DELETE", "PATCH"}
              => route_type = "DEFAULT"

\* C9 witness: GET /{} has been classified a resource template.
C9_Witness ==
    /\ route = [method |-> "GET", path |-> <<"/", "{", "}">>]
    /\ route_type = "RESOURCE_TEMPLATE"

\* C10: with a default organisation configured, once the server is built
\* every tool whose schema declares org has the one transformation
\* org -> (hide, default = the configured value) registered; a tool without
\* org, a resource and a resource template have none; and no component's
\* declared properties have been changed.
C10_OrgRedaction ==
    (spc = "returned" /\ environ.QUORTEX_ORG \notin {PyNone, PyStr("")}) =>
        \A op \in operations :
            /\ components[op.name].properties = op.properties
            /\ IF op.method \in {"POST", "PUT", "DELETE", "PATCH"}
                  /\ "org" \in op.properties
               THEN /\ op.name \in DOMAIN transforms
                    /\ DOMAIN transforms[op.name] = {"org"}
                    /\ transforms[op.name]["org"].hide
                    /\ transforms[op.name]["org"].default = environ.QUORTEX_ORG
               ELSE op.name \notin DOMAIN transforms

\* C10 witness: the server is built with a default organisation; two tools
\* declare org and are transformed, while a tool without org and a resource
\* template and a resource that declare org are not.
C10_Witness ==
    /\ spc = "returned"
    /\ environ.QUORTEX_ORG = PyStr("test-org-uuid")
    /\ {op.name : op \in operations} =
          {"ingest_inputs_create", "update_input", "delete_user", "get_input", "get_status"}
    /\ DOMAIN transforms = {"ingest_inputs_create", "update_input"}
    /\ components["get_input"].type = "RESOURCE_TEMPLATE"

\* The environment variable is set to a non-empty string.
Configured(v) == v \notin {PyNone, PyStr("")}

\* The server part has chosen how the outbound client authenticates.
AuthChosen == spc \in {"from_openapi", "transform", "returned"}

\* C11, the choice: with a secret configured the client has the token
\* manager built on that secret and no headers, whatever the static token;
\* with only a static token it has the one header "Bearer <token>" and no
\* token manager (nothing that could fetch from the issuer); with neither it
\* has no argument at all; and construction can always go on to its end.
C11_ModeChosen ==
    /\ AuthChosen =>
          IF Configured(environ.QUORTEX_API_KEY) THEN
              /\ DOMAIN client_kwargs = {"auth"}
              /\ client_kwargs["auth"].class = "QuortexAuth"
              /\ client_kwargs["auth"].api_key_secret = environ.QUORTEX_API_KEY
          ELSE IF Configured(environ.QUORTEX_API_TOKEN) THEN
              /\ DOMAIN client_kwargs = {"headers"}
              /\ DOMAIN client_kwargs["headers"] = {"Authorization"}
              /\ client_kwargs["headers"]["Authorization"]
                    = "Bearer " \o environ.QUORTEX_API_TOKEN.val
          ELSE client_kwargs = NoComponents
    /\ spc \in {"route_maps", "from_openapi", "transform"} => ENABLED ServerNext

\* C11, chosen once: after the choice neither the client arguments nor the
\* environment they were read from change again.
C11_ChosenOnce ==
    AuthChosen => (client_kwargs' = client_kwargs /\ environ' = environ)

\* C11: the outbound authentication mode is chosen once, and the modes are
\* mutually exclusive, the secret taking precedence over the static token.
C11_AuthModeExclusive == []C11_ModeChosen /\ [][C11_ChosenOnce]_vars

\* C11 witness: the server is built with both the secret and the static
\* token configured, and its client has the token manager and no headers.
C11_Witness ==
    /\ spc = "returned"
    /\ environ.QUORTEX_API_KEY = PyStr("secret")
    /\ environ.QUORTEX_API_TOKEN = PyStr("static-token")
    /\ DOMAIN client_kwargs = {"auth"}

\* C19: with QUORTEX_ORG unset or empty, the server is built with no
\* transformation registered for any component, and every component has
\* the properties its operation declares, org among them where declared.
C19_NoOrgNoRedaction ==
    (spc = "returned" /\ environ.QUORTEX_ORG \in {PyNone, PyStr("")}) =>
        /\ DOMAIN transforms = {}
        /\ \A op \in operations :
              /\ op.name \in DOMAIN components
              /\ components[op.name].properties = op.properties

\* C19 witness: QUORTEX_ORG is the empty string, the server is built, its
\* tools ingest_inputs_create and update_input declare org and nothing is
\* registered for them.
C19_Witness ==
    /\ spc = "returned"
    /\ environ.QUORTEX_ORG = PyStr("")
    /\ {"ingest_inputs_create", "update_input"} \subseteq Tools(components)
    /\ "org" \in components["ingest_inputs_create"].properties
    /\ "ingest_inputs_create" \notin DOMAIN transforms

----------------------------------------------------------------------------
\* Properties of the start-up.

\* C12: when the directory is absent or holds no spec file, the function
\* returns None at once: no dict is ever loaded or merged (the heap stays
\* empty), the server part is never entered (no client arguments, no token
\* manager, no component), and main() exits without running a server.
C12_FailFast ==
    (api_dir = "missing" \/ yaml_files = <<>>) =>
        /\ mpc \in {"start", "returned_none"}
        /\ heap = <<>> /\ loaded = <<>> /\ merged_spec = 0
        /\ spc = "off"
        /\ client_kwargs = NoComponents /\ components = NoComponents
        /\ entry \in {"pending", "exited"}
        /\ entry = "exited" => mpc = "returned_none"

\* C12 witness: the directory exists and holds no spec file, the secret is
\* set, the function has returned None and main() has exited.
C12_Witness ==
    /\ api_dir = "present" /\ yaml_files = <<>>
    /\ environ.QUORTEX_API_KEY = PyStr("secret")
    /\ mpc = "returned_none"
    /\ entry = "exited"

----------------------------------------------------------------------------
\* Properties of the token manager.

\* No usable token is cached: None, or the empty string.
NoTokenCached == access_token = PyNone \/ access_token = PyStr("")

\* C1 (as claimed): a step in which the fetch of a request fails leaves the
\* cached token and the cached expiry exactly as they were.
C1_FailedRefreshKeepsCache ==
    [][\A r \in Requests :
          (pc[r] = "fetching" /\ pc'[r] = "failed")
             => (access_token' = access_token /\ expiry' = expiry)]_vars

\* C5: a request entering the auth flow performs a fetch if and only if no
\* token is cached or now > expiry - 60; otherwise it is sent at once with
\* the cached token, and the cache is left alone.
C5_RefreshTrigger ==
    [][\A r \in Requests :
          (pc[r] = "idle" /\ pc'[r] # "idle") =>
             /\ pc'[r] = "fetching" <=> (NoTokenCached \/ clock > expiry - 60)
             /\ pc'[r] # "fetching" =>
                   /\ pc'[r] = "sent_cached"
                   /\ hdr'[r] = Bearer(access_token)
                   /\ access_token' = access_token /\ expiry' = expiry
                   /\ \A q \in Requests : pc[q] # "fetching" => pc'[q] # "fetching"]_vars

\* C5 witness: a request was sent from the cache exactly 60 seconds before
\* the expiry of a credential fetched earlier.
C5_Witness ==
    \E r \in Requests :
        /\ pc[r] = "sent_cached"
        /\ clock = expiry - 60
        /\ clock > 1000
        /\ hdr[r] = "Bearer abc"

\* C6 (as claimed): every dispatched request carries Bearer <t> with t a
\* non-empty access_token the issuer returned, and a request whose refresh
\* failed carries no header (it is never dispatched).
C6_DispatchedWithIssuedToken ==
    \A r \in Requests :
        /\ Dispatched(r) => \E q \in Requests : hdr[r] = Bearer(PyStr(TokenOf(q)))
        /\ pc[r] = "failed" => hdr[r] = NoHeader

\* C7: a request that finds the credential stale starts its own fetch also
\* while another fetch is in flight; a fetch that is answered with a complete
\* credential never fails its request, which goes on to be sent; and the
\* cache holds the credential of the answer processed last.
C7_StepOk ==
    \A r \in Requests :
        /\ (pc[r] = "idle" /\ pc'[r] # "idle" /\ (NoTokenCached \/ clock > expiry - 60))
              => pc'[r] = "fetching"
        /\ (pc[r] = "fetching" /\ pc'[r] # "fetching")
              => (lastProc'.raised = "no" => pc'[r] = "closing")
        /\ (pc[r] = "closing" /\ pc'[r] # "closing") => pc'[r] = "sent_fresh"

\* C7, last write wins: the cache holds the credential of the answer
\* processed last, when that answer was complete.
C7_LastWriteWins ==
    lastProc.raised = "no" =>
        /\ access_token = lastProc.token
        /\ expiry = lastProc.expiry

\* C7, both parts: the cache always holds the last complete answer, and
\* every step of a request is as C7_StepOk says.
C7_ConcurrentRefresh == []C7_LastWriteWins /\ [][C7_StepOk]_vars

\* C7 witness: two fetches overlapped and both were answered with a complete
\* credential; the answer to request 1 was processed after the answer to
\* request 2, and request 2 has been sent with the token of request 1.
C7_Witness ==
    /\ pc[1] = "closing" /\ pc[2] = "sent_fresh"
    /\ hdr[2] = "Bearer abc"
    /\ lastProc.raised = "no" /\ lastProc.token = PyStr("abc")

\* C8 (as claimed): the cached token and the cached expiry are the initial
\* pair or were stored together from one issuer response.
C8_CredentialAtomic == paired

\* The answer names an expiry: it has expires_at, and not as null or "".
NamesExpiry(data) ==
    /\ "expires_at" \in DOMAIN data
    /\ data["expires_at"].type # "none"
    /\ ~(data["expires_at"].type = "str" /\ ~data["expires_at"].iso
            /\ data["expires_at"].val = "")

\* C14: when the fetch of request r is answered and the refresh succeeds,
\* then for every 200 answer with a token that the step can be the processing
\* of, the cached expiry becomes the instant expires_at denotes if the answer
\* names one, whatever the clock says, and otherwise the time the request
\* sampled when it began the refresh plus 86400 seconds.
C14_ExpiryComputed ==
    [][\A r \in Requests :
          (pc[r] = "fetching" /\ pc'[r] = "closing") =>
              \A body \in OkBodies(r) :
                  \/ IF NamesExpiry(body.obj)
                     THEN /\ body.obj["expires_at"].type = "str"
                          /\ body.obj["expires_at"].iso
                          /\ expiry' = body.obj["expires_at"].epoch
                     ELSE expiry' = reqNow[r] + 86400
                  \/ access_token' # body.obj["access_token"]
                  \/ ~FetchReturn(r, HttpResp(200, body))]_vars

\* C14 witness: a refresh has just succeeded with an expires_at that was
\* already in the past when the request began, and the cache holds it.
C14_Witness ==
    /\ pc[1] = "closing"
    /\ lastProc.raised = "no"
    /\ expiry = 970 /\ expiry < clock - 60
    /\ access_token = PyStr("abc")

\* The moves of a request through its flow: it fetches at most once, at its
\* start; a failed fetch ends it; a fetch that succeeded is followed by the
\* dispatch; after the dispatch or the failure the request is over.
FlowMoves ==
    {<<"idle", "fetching">>, <<"idle", "sent_cached">>,
     <<"fetching", "closing">>, <<"fetching", "failed">>,
     <<"closing", "sent_fresh">>,
     <<"sent_cached", "idle">>, <<"sent_fresh", "idle">>, <<"failed", "idle">>}

BearerHeaders == {"Bearer abc", "Bearer xyz", "Bearer ", "Bearer None"}

\* C17, no retry: every change of a request's position is one of FlowMoves;
\* the header of a dispatched request is set once, and a request that has
\* fetched and is not yet over does not fetch again.
C17_StepOk ==
    \A r \in Requests :
        /\ pc'[r] # pc[r] => <<pc[r], pc'[r]>> \in FlowMoves
        /\ (Dispatched(r) /\ pc'[r] = pc[r]) => hdr'[r] = hdr[r]

\* C17, the two outcomes: a dispatched request has a bearer header, a failed
\* one has none, and a request still in its flow has none yet.
C17_Outcomes ==
    \A r \in Requests :
        /\ Dispatched(r) => hdr[r] \in BearerHeaders
        /\ ~Dispatched(r) => hdr[r] = NoHeader

\* C17: no retry, and when every fetch is answered every request that has
\* issued a fetch ends, dispatched with a bearer header or failed.
C17_NoRetryAndCompletion ==
    /\ [][C17_StepOk]_vars
    /\ []C17_Outcomes
    /\ \A r \in Requests :
          (pc[r] = "fetching") ~> (pc[r] = "sent_fresh" \/ pc[r] = "failed")

\* C17 witness: of two requests that fetched at the same time one has failed
\* and carries no header, the other has been dispatched.
C17_Witness ==
    /\ pc[1] = "failed" /\ hdr[1] = NoHeader
    /\ pc[2] = "sent_fresh" /\ hdr[2] = "Bearer xyz"
    /\ lastProc.raised = "yes"

\* C18 (as claimed): once a non-empty token is cached, every step leaves a
\* non-empty token cached, and the cached credential changes only in a step
\* in which the fetch of some request is answered and its refresh succeeds.
C18_NeverBackToUnset ==
    [][~NoTokenCached =>
          /\ ~NoTokenCached'
          /\ (access_token' # access_token \/ expiry' # expiry) =>
                \E r \in Requests : pc[r] = "fetching" /\ pc'[r] = "closing"]_vars

====
